---- MODULE Spec2Model ----
(***************************************************************************)
(* Model of antspymm/get_data.py: the data cache fetcher (get_data), the   *)
(* template builder (dewarp_imageset), the super-resolution upsampler      *)
(* (super_res_mcimage) and the DTI reconstructor (dipy_dti_recon).         *)
(*                                                                         *)
(* Strings are sequences of one-character strings, so that endswith and    *)
(* pathlib's stem are computed character by character as Python does.      *)
(* Calls into ants, antspynet, dipy and keras are black boxes: the value   *)
(* of such a call is a record naming the call and its arguments.           *)
(***************************************************************************)
EXTENDS Integers, Sequences, FiniteSets, TLC

VARIABLES
    \* ---- get_data ----
    cache,      \* the file names in DATA_PATH, in the order os.listdir lists them
    cwd,        \* the process's working directory, as its path components
    calls,      \* number of get_data calls made so far
    gd,         \* the last get_data call: its arguments, downloads and outcome
    \* ---- dewarp_imageset ----
    dw,         \* the call's frame: locals, the list objects and the position
    \* ---- super_res_mcimage ----
    sr,         \* the call's frame: locals, the calls made so far, the position
    \* ---- dipy_dti_recon ----
    dti         \* the call's arguments and the masking step it ran

vars == << cache, cwd, calls, gd, dw, sr, dti >>
dataVars == << cache, cwd, calls, gd >>

(***************************************************************************)
(* Bounds                                                                  *)
(***************************************************************************)
MaxSegs == 5        \* dot-separated segments in a file name
MaxCalls == 2       \* get_data calls in one behaviour
MaxArgSegs == 2     \* dot-separated segments in a name argument
MaxImages == 3      \* images in the list given to dewarp_imageset
MaxPadding == 2     \* the padding argument
MaxIterations == 2  \* the iterations argument
MaxFrames == 3      \* frames of the image given to super_res_mcimage
MaxPolyOrder == 2   \* the poly_order argument
MaxSize == 2        \* voxels along a spatial axis of that image
MaxParam == 5       \* the masking arguments of dipy_dti_recon

(***************************************************************************)
(* Strings                                                                 *)
(***************************************************************************)
Dot == "."
Segs == { <<>>, <<"a">> }           \* the segments file names are built from
All == <<"a", "l", "l">>            \* the string 'all'
NoneVal == <<"None">>               \* Python's None (no string equals it)
DATA_PATH == <<"~", "/", ".", "a", "n", "t", "s", "p", "y", "m", "m", "/">>

RECURSIVE Join(_)
Join(segs) ==
    IF Len(segs) = 0 THEN <<>>
    ELSE IF Len(segs) = 1 THEN segs[1]
    ELSE segs[1] \o <<Dot>> \o Join(Tail(segs))

SegLists == UNION { [1..n -> Segs] : n \in 1..MaxSegs }
\* os.listdir never yields "", "." or ".."
FileNames == { Join(s) : s \in SegLists } \ { <<>>, <<Dot>>, <<Dot, Dot>> }

\* str.endswith
EndsWith(s, suffix) ==
    /\ Len(suffix) <= Len(s)
    /\ SubSeq(s, Len(s) - Len(suffix) + 1, Len(s)) = suffix

\* str.rfind('.') as a 1-based index, 0 when there is no dot
RFindDot(s) ==
    LET I == { i \in 1..Len(s) : s[i] = Dot }
    IN  IF I = {} THEN 0 ELSE CHOOSE i \in I : \A j \in I : j <= i

\* PurePath.stem of a final path component: the suffix starts at the last
\* dot unless that dot is the first or the last character
Stem(n) ==
    LET j == RFindDot(n)
    IN  IF 1 < j /\ j < Len(n) THEN SubSeq(n, 1, j - 1) ELSE n

\* The final component of Path(s).resolve() for a string without separator:
\* "" and "." are the working directory, ".." its parent, anything else
\* itself (no symbolic link of that name in the working directory).
ResolveName(s, wd) ==
    IF s = <<>> \/ s = <<Dot>> THEN
        IF Len(wd) = 0 THEN <<>> ELSE wd[Len(wd)]
    ELSE IF s = <<Dot, Dot>> THEN
        IF Len(wd) <= 1 THEN <<>> ELSE wd[Len(wd) - 1]
    ELSE s

\* Path(s).resolve().stem
ResolveStem(s, wd) == Stem(ResolveName(s, wd))

\* The three stem calls of the lookup loop
MyStem(fname, wd) == ResolveStem(ResolveStem(ResolveStem(fname, wd), wd), wd)

\* os.path.join(DATA_PATH, fname): DATA_PATH ends with the separator
PathJoin(fname) == DATA_PATH \o fname

(***************************************************************************)
(* get_data                                                                *)
(***************************************************************************)
Versions == { 1, 2 }
\* The files of the archive of a version (the content of the zip that
\* download_data extracts into DATA_PATH).
Archive(version) ==
    IF version = 1 THEN { <<"a", Dot, "a">> }
    ELSE { <<"a", Dot, "a">>, <<"a", "a", Dot, "a", Dot, "a">> }

\* The set of the elements of a sequence
Range(l) == { l[i] : i \in 1..Len(l) }

\* The orders in which a directory holding the files of dir may list them
Listings(dir) ==
    { l \in [1..Cardinality(dir) -> dir] :
        \A i, j \in 1..Cardinality(dir) : l[i] = l[j] => i = j }

\* download_data: get_file extracts the archive into DATA_PATH, and the zip
\* itself is removed again. The directory then lists its files in some order.
DownloadData(listing, version) == Listings(Range(listing) \cup Archive(version))

\* The loops that collect the files ending with target_extension
RECURSIVE CollectFiles(_, _)
CollectFiles(listing, ext) ==
    IF Len(listing) = 0 THEN <<>>
    ELSE IF EndsWith(Head(listing), ext)
         THEN <<PathJoin(Head(listing))>> \o CollectFiles(Tail(listing), ext)
         ELSE CollectFiles(Tail(listing), ext)

\* One iteration of the lookup loop
LookupStepNoExt(datapath, fname, name, ext, wd) ==
    IF name = MyStem(fname, wd) THEN PathJoin(fname) ELSE datapath
LookupStep(datapath, fname, name, ext, wd) ==
    IF name = MyStem(fname, wd) /\ EndsWith(fname, ext)
    THEN PathJoin(fname) ELSE datapath

RECURSIVE Lookup(_, _, _, _, _)
Lookup(listing, datapath, name, ext, wd) ==
    IF Len(listing) = 0 THEN datapath
    ELSE Lookup(Tail(listing),
                LookupStep(datapath, Head(listing), name, ext, wd),
                name, ext, wd)

NameArgs ==
    { NoneVal, All, <<"a", "a">> } \cup
    { Join(s) : s \in UNION { [1..n -> Segs] : n \in 1..MaxArgSegs } }
Exts == { <<Dot, "a">>, <<Dot, "a", Dot, "a">>, <<>> }
CwdOptions == { <<>>, << <<"a">>, <<"a", Dot, "a">> >> }

NoCall == [ name |-> NoneVal, force |-> FALSE, version |-> 2, ext |-> <<>>,
            downloads |-> 0, kind |-> "none", value |-> <<>> ]

GetData(name, force, version, ext) ==
    /\ \E c1 \in (IF force THEN DownloadData(cache, version) ELSE { cache }) :
        LET files1 == CollectFiles(c1, ext)
            again == Len(files1) = 0
        IN \E c2 \in (IF again THEN DownloadData(c1, version) ELSE { c1 }) :
           LET files == IF again THEN CollectFiles(c2, ext) ELSE files1
               datapath == Lookup(c2, NoneVal, name, ext, cwd)
               call == [ name |-> name, force |-> force, version |-> version,
                         ext |-> ext,
                         downloads |-> (IF force THEN 1 ELSE 0)
                                       + (IF again THEN 1 ELSE 0) ]
           IN /\ cache' = c2
              /\ calls' = calls + 1
              /\ gd' = IF name = All
                          THEN call @@ [ kind |-> "list", value |-> files ]
                       ELSE IF datapath = NoneVal
                          THEN call @@ [ kind |-> "ValueError", value |-> <<>> ]
                       ELSE call @@ [ kind |-> "path", value |-> <<datapath>> ]
              /\ UNCHANGED << cwd, dw, sr, dti >>

(***************************************************************************)
(* dewarp_imageset                                                         *)
(*                                                                         *)
(* An image is a record: the caller's image it derives from (id), its      *)
(* dimension, whether it is the volume sliced out of a time series, and    *)
(* the pad widths applied to it. Python lists are objects: dw.lists holds  *)
(* the list objects and image_list and avglist are references to them.     *)
(***************************************************************************)
NoneArg == <<>>     \* an optional argument given as None; <<v>> is the value v
DefaultIterations == 2

Image(i, d) == [ id |-> i, dim |-> d, sliced |-> FALSE, pad |-> <<>> ]

\* ants.slice_image( image, axis=3, idx=0 )
SliceImage0(img) == [ img EXCEPT !.dim = 3, !.sliced = TRUE ]

\* ants.pad_image( image, pad_width=pw )
PadImage(img, pw) == [ img EXCEPT !.pad = pw ]

\* ants.build_template( image_list=avglist, ..., iterations=iterations )
BuildTemplate(avg, iterations) == [ of |-> avg, iterations |-> iterations ]

\* ants.registration( fixed, moving )['fwdtransforms']
Registration(fixed, moving) == [ fixed |-> fixed, moving |-> moving ]

\* ants.apply_transforms( fixed, moving, transformlist, imagetype )
ApplyTransforms(fixed, moving, transformlist, imagetype) ==
    [ fixed |-> fixed, moving |-> moving, transformlist |-> transformlist,
      imagetype |-> imagetype ]

NoTemplate == BuildTemplate(<<>>, 0)

DwIdle ==
    [ pc |-> "idle", caller_list |-> <<>>,
      lists |-> [ L1 |-> <<>>, L2 |-> <<>> ],
      image_list |-> "L1", avglist |-> "L1",
      imagetype |-> 0, iterations |-> 0, padding |-> 0, pw |-> <<>>,
      k |-> 0, btp |-> NoTemplate, outlist |-> <<>>,
      ret |-> [ dewarpedmean |-> NoTemplate, dewarped |-> <<>> ] ]

\* Lines 137-153: the reference volumes, the defaults and the pad widths.
\* For 2D and 3D images avglist is the caller's list object itself.
DwCall(images, iterations, padding) ==
    /\ dw.pc = "idle"
    /\ LET is4d == images[1].dim > 3
           avg == IF is4d
                  THEN [ k \in 1..Len(images) |-> SliceImage0(images[k]) ]
                  ELSE <<>>
           ndim == IF is4d THEN avg[1].dim ELSE images[1].dim
       IN dw' = [ dw EXCEPT
                    !.pc = IF padding > 0 THEN "pad" ELSE "template",
                    !.caller_list = images,
                    !.lists = [ L1 |-> images, L2 |-> avg ],
                    !.image_list = "L1",
                    !.avglist = IF is4d THEN "L2" ELSE "L1",
                    !.imagetype = IF is4d THEN 3 ELSE 0,
                    !.iterations = IF iterations = NoneArg
                                   THEN DefaultIterations ELSE iterations[1],
                    !.padding = padding,
                    !.pw = IF padding > 0 THEN [ j \in 1..ndim |-> padding ]
                           ELSE <<>>,
                    !.k = 0 ]
    /\ UNCHANGED << dataVars, sr, dti >>

\* Lines 154-155: one iteration of avglist[k] = ants.pad_image( avglist[k], pw )
DwPad ==
    /\ dw.pc = "pad"
    /\ LET avg == dw.lists[dw.avglist]
           k == dw.k + 1
       IN dw' = [ dw EXCEPT
                    !.lists[dw.avglist][k] = PadImage(avg[k], dw.pw),
                    !.k = k,
                    !.pc = IF k = Len(avg) THEN "template" ELSE "pad" ]
    /\ UNCHANGED << dataVars, sr, dti >>

\* Lines 157-159
DwTemplate ==
    /\ dw.pc = "template"
    /\ dw' = [ dw EXCEPT
                 !.btp = BuildTemplate(dw.lists[dw.avglist], dw.iterations),
                 !.k = 0,
                 !.pc = "warp" ]
    /\ UNCHANGED << dataVars, sr, dti >>

\* Lines 162-166: one iteration of the loop that warps the images
DwWarp ==
    /\ dw.pc = "warp"
    /\ LET k == dw.k + 1
           reg == Registration(dw.btp, dw.lists[dw.avglist][k])
           mywarped == ApplyTransforms(dw.btp, dw.lists[dw.image_list][k],
                                       reg, dw.imagetype)
       IN dw' = [ dw EXCEPT
                    !.outlist = Append(@, mywarped),
                    !.k = k,
                    !.pc = IF k = Len(dw.lists[dw.image_list])
                           THEN "return" ELSE "warp" ]
    /\ UNCHANGED << dataVars, sr, dti >>

\* Line 169
DwReturn ==
    /\ dw.pc = "return"
    /\ dw' = [ dw EXCEPT
                 !.ret = [ dewarpedmean |-> dw.btp, dewarped |-> dw.outlist ],
                 !.pc = "done" ]
    /\ UNCHANGED << dataVars, sr, dti >>

\* The lists of 1..MaxImages images of one dimension (2D, 3D or 3D+time)
ImageLists ==
    { [ k \in 1..n |-> Image(k, d) ] : n \in 1..MaxImages, d \in { 2, 3, 4 } }

IterationArgs == { NoneArg } \cup { <<n>> : n \in 0..MaxIterations }

NextDewarp ==
    \/ \E images \in ImageLists, iterations \in IterationArgs,
          padding \in 0..MaxPadding :
          DwCall(images, iterations, padding)
    \/ DwPad
    \/ DwTemplate
    \/ DwWarp
    \/ DwReturn

(***************************************************************************)
(* super_res_mcimage                                                       *)
(*                                                                         *)
(* An image value is a record: the input frame it derives from, the calls  *)
(* that produced it from that frame (ops), the calls that produced the     *)
(* second operand of the last of them when it has one (ref), and its       *)
(* shape. sr.log lists the library calls in the order they are made.       *)
(* The progress printing under verbose changes no value and is left out;   *)
(* truncation and target_range are passed through to the library calls.    *)
(***************************************************************************)
UpFactor == 2       \* the upsampling factor of the super-resolution model

\* ants.slice_image( image, axis=idim - 1, idx=k )
SliceImage(shape, k) ==
    [ frame |-> k, ops |-> <<"slice_image">>, ref |-> <<>>, shape |-> shape ]

\* ants.iMath( temp, "TruncateIntensity", truncation[0], truncation[1] )
TruncateIntensity(img) ==
    [ img EXCEPT !.ops = Append(@, "TruncateIntensity") ]

\* antspynet.apply_super_resolution_model_to_image( temp, srmodel, ... )
ApplySuperResolution(img) ==
    [ img EXCEPT !.ops = Append(@, "apply_super_resolution_model_to_image"),
                 !.shape = [ j \in 1..Len(img.shape) |-> UpFactor * img.shape[j] ] ]

\* ants.resample_image_to_target( image, target )
ResampleImageToTarget(img, target) ==
    [ img EXCEPT !.ops = Append(@, "resample_image_to_target"),
                 !.ref = target.ops,
                 !.shape = target.shape ]

\* antspynet.regression_match_image( source, reference, poly_order )
RegressionMatchImage(source, reference, poly_order) ==
    [ source EXCEPT !.ops = Append(@, "regression_match_image"),
                    !.ref = reference.ops ]

NoImage == [ frame |-> 0, ops |-> <<>>, ref |-> <<>>, shape |-> <<>> ]
Logged(op, k) == [ op |-> op, frame |-> k ]

SrIdle ==
    [ pc |-> "idle", ishape |-> <<>>, nTimePoints |-> 0, poly_order |-> NoneArg,
      k |-> 0, temp |-> NoImage, mysr |-> NoImage, bilin |-> NoImage,
      upshape_bound |-> FALSE, upshape |-> <<>>, mcsr |-> <<>>, log |-> <<>>,
      kind |-> "none", result |-> [ shape |-> <<>>, frames |-> <<>> ] ]

\* Where the loop goes after the model was applied: line 227
AfterModelAlways(poly_order) == "resample"
AfterModel(poly_order) == IF poly_order /= NoneArg THEN "resample" ELSE "append"

\* Lines 206-211
SrCall(ishape, poly_order) ==
    /\ sr.pc = "idle"
    /\ LET n == ishape[Len(ishape)]
       IN sr' = [ sr EXCEPT
                    !.pc = IF n > 0 THEN "slice" ELSE "finish",
                    !.ishape = ishape,
                    !.nTimePoints = n,
                    !.poly_order = poly_order,
                    !.k = 0,
                    !.mcsr = <<>> ]
    /\ UNCHANGED << dataVars, dw, dti >>

\* Line 216
SrSlice ==
    /\ sr.pc = "slice"
    /\ sr' = [ sr EXCEPT
                 !.temp = SliceImage(SubSeq(sr.ishape, 1, Len(sr.ishape) - 1), sr.k),
                 !.log = Append(@, Logged("slice_image", sr.k)),
                 !.pc = "truncate" ]
    /\ UNCHANGED << dataVars, dw, dti >>

\* Line 217
SrTruncate ==
    /\ sr.pc = "truncate"
    /\ sr' = [ sr EXCEPT
                 !.temp = TruncateIntensity(sr.temp),
                 !.log = Append(@, Logged("TruncateIntensity", sr.k)),
                 !.pc = "apply" ]
    /\ UNCHANGED << dataVars, dw, dti >>

\* Lines 218-220
SrApply ==
    /\ sr.pc = "apply"
    /\ sr' = [ sr EXCEPT
                 !.mysr = ApplySuperResolution(sr.temp),
                 !.log = Append(@, Logged("apply_super_resolution_model_to_image", sr.k)),
                 !.pc = IF sr.k = 0 THEN "upshape" ELSE AfterModel(sr.poly_order) ]
    /\ UNCHANGED << dataVars, dw, dti >>

\* Lines 221-227: at frame 0 the output shape is taken from the model output
SrUpshape ==
    /\ sr.pc = "upshape"
    /\ sr' = [ sr EXCEPT
                 !.upshape = [ j \in 1..(Len(sr.ishape) - 1) |-> sr.mysr.shape[j] ]
                             \o << sr.ishape[Len(sr.ishape)] >>,
                 !.upshape_bound = TRUE,
                 !.pc = AfterModel(sr.poly_order) ]
    /\ UNCHANGED << dataVars, dw, dti >>

\* Line 228
SrResample ==
    /\ sr.pc = "resample"
    /\ sr' = [ sr EXCEPT
                 !.bilin = ResampleImageToTarget(sr.temp, sr.mysr),
                 !.log = Append(@, Logged("resample_image_to_target", sr.k)),
                 !.pc = "match" ]
    /\ UNCHANGED << dataVars, dw, dti >>

\* Line 229
SrMatch ==
    /\ sr.pc = "match"
    /\ sr' = [ sr EXCEPT
                 !.mysr = RegressionMatchImage(sr.mysr, sr.bilin, sr.poly_order),
                 !.log = Append(@, Logged("regression_match_image", sr.k)),
                 !.pc = "append" ]
    /\ UNCHANGED << dataVars, dw, dti >>

\* Line 230 and the loop's next index
SrAppend ==
    /\ sr.pc = "append"
    /\ sr' = [ sr EXCEPT
                 !.mcsr = Append(@, sr.mysr),
                 !.k = sr.k + 1,
                 !.pc = IF sr.k + 1 < sr.nTimePoints THEN "slice" ELSE "finish" ]
    /\ UNCHANGED << dataVars, dw, dti >>

\* Lines 232-236: upshape is a local bound only in the loop's first
\* iteration; reading it unbound raises UnboundLocalError.
\* ants.list_to_ndimage( ants.resample_image( image, upshape ), mcsr )
SrFinish ==
    /\ sr.pc = "finish"
    /\ sr' = IF sr.upshape_bound
             THEN [ sr EXCEPT
                      !.kind = "image",
                      !.result = [ shape |-> sr.upshape, frames |-> sr.mcsr ],
                      !.pc = "done" ]
             ELSE [ sr EXCEPT !.kind = "UnboundLocalError", !.pc = "done" ]
    /\ UNCHANGED << dataVars, dw, dti >>

\* The shapes of the input: two or three spatial axes, then the frames
InputShapes ==
    { sp \o <<n>> : sp \in [1..2 -> 1..MaxSize] \cup [1..3 -> 1..MaxSize],
                    n \in 0..MaxFrames }
PolyOrderArgs == { NoneArg } \cup { <<p>> : p \in 1..MaxPolyOrder }

NextSR ==
    \/ \E ishape \in InputShapes, poly_order \in PolyOrderArgs :
          SrCall(ishape, poly_order)
    \/ SrSlice
    \/ SrTruncate
    \/ SrApply
    \/ SrUpshape
    \/ SrResample
    \/ SrMatch
    \/ SrAppend
    \/ SrFinish

(***************************************************************************)
(* dipy_dti_recon                                                          *)
(***************************************************************************)
OtsuMedianRadius == 3
OtsuNumpass == 1

DtiIdle ==
    [ pc |-> "idle", median_radius |-> 0, numpass |-> 0, dilate |-> 0,
      otsu |-> [ median_radius |-> 0, numpass |-> 0, dilate |-> 0,
                 autocrop |-> FALSE, vol_idx |-> {} ] ]

\* Lines 274-280: the arguments median_otsu is called with
MedianOtsuArgs(median_radius, numpass, dilate) ==
    [ median_radius |-> OtsuMedianRadius, numpass |-> OtsuNumpass,
      dilate |-> dilate, autocrop |-> TRUE, vol_idx |-> 0..4 ]

DipyDtiRecon(median_radius, numpass, dilate) ==
    /\ dti.pc = "idle"
    /\ dti' = [ pc |-> "done", median_radius |-> median_radius,
                numpass |-> numpass, dilate |-> dilate,
                otsu |-> MedianOtsuArgs(median_radius, numpass, dilate) ]
    /\ UNCHANGED << dataVars, dw, sr >>

NextDTI ==
    \E median_radius \in 1..MaxParam, numpass \in 1..MaxParam,
       dilate \in 0..MaxParam :
        DipyDtiRecon(median_radius, numpass, dilate)

(***************************************************************************)
(* Specifications                                                          *)
(***************************************************************************)
InitEmpty ==
    /\ cache = <<>>
    /\ cwd \in CwdOptions
    /\ calls = 0
    /\ gd = NoCall
    /\ dw = DwIdle
    /\ sr = SrIdle
    /\ dti = DtiIdle

\* Before a call of one of the image functions
InitIdle ==
    /\ cache = <<>>
    /\ cwd = <<>>
    /\ calls = 0
    /\ gd = NoCall
    /\ dw = DwIdle
    /\ sr = SrIdle
    /\ dti = DtiIdle

\* DATA_PATH may already hold a file when the first call is made
InitAny ==
    /\ cache \in { <<>> } \cup { <<f>> : f \in FileNames }
    /\ cwd \in CwdOptions
    /\ calls = 0
    /\ gd = NoCall
    /\ dw = DwIdle
    /\ sr = SrIdle
    /\ dti = DtiIdle

\* Any sequence of get_data calls
NextData ==
    /\ calls < MaxCalls
    /\ \E name \in NameArgs, force \in BOOLEAN, version \in Versions, ext \in Exts :
          GetData(name, force, version, ext)

\* One get_data call on a directory in any state
NextResolve ==
    /\ calls = 0
    /\ \E name \in NameArgs, force \in BOOLEAN, version \in Versions, ext \in Exts :
          GetData(name, force, version, ext)

SpecCache == InitEmpty /\ [][NextData]_vars
SpecResolve == InitAny /\ [][NextResolve]_vars
SpecDewarp == InitIdle /\ [][NextDewarp]_vars
SpecSR == InitIdle /\ [][NextSR]_vars
SpecDTI == InitIdle /\ [][NextDTI]_vars

(***************************************************************************)
(* Properties                                                              *)
(***************************************************************************)

\* C1: starting from an empty cache directory, the first get_data call
\* downloads the archive into the cache, and every later call made with
\* force_download=False performs no download, whatever name and
\* target_extension it is given.
C1_OnlyFirstCallDownloads ==
    /\ calls = 1 =>
          /\ gd.downloads >= 1
          /\ Archive(gd.version) \subseteq Range(cache)
    /\ (calls >= 2 /\ ~gd.force) => gd.downloads = 0

\* The file name with all of its extensions removed
RECURSIVE StripAll(_)
StripAll(n) == IF Stem(n) = n THEN n ELSE StripAll(Stem(n))

\* A stem and extensions that are all non-empty: no leading, trailing or
\* doubled dot
WellFormed(n) ==
    /\ Len(n) > 0
    /\ n[1] /= Dot
    /\ n[Len(n)] /= Dot
    /\ \A i \in 1..(Len(n) - 1) : ~(n[i] = Dot /\ n[i + 1] = Dot)

\* The cached files that end with ext and whose name with all extensions
\* removed is name
FullStemMatches(name, ext) ==
    { f \in Range(cache) : WellFormed(f) /\ EndsWith(f, ext) /\ StripAll(f) = name }

\* C2: for every cached file name with any number of dot-separated
\* extensions that ends with target_extension, get_data(name) returns that
\* file's path when name is the file name with all of its extensions removed
\* (stated for a directory of well-formed names and a file that is the only
\* one of that name and extension).
C2_StripsAllExtensions ==
    (/\ calls = 1 /\ gd.name /= All /\ gd.name /= NoneVal
     /\ \A g \in Range(cache) : WellFormed(g)) =>
        \A f \in FullStemMatches(gd.name, gd.ext) :
            FullStemMatches(gd.name, gd.ext) = { f } =>
                /\ gd.kind = "path"
                /\ gd.value = << PathJoin(f) >>

\* The cached files the lookup loop accepts for a name and an extension
Matches(name, ext) ==
    { f \in Range(cache) : EndsWith(f, ext) /\ MyStem(f, cwd) = name }

ReferenceVolume(img, padding) ==
    LET vol == IF img.dim > 3 THEN SliceImage0(img) ELSE img
    IN  IF padding > 0
        THEN PadImage(vol, [ j \in 1..vol.dim |-> padding ])
        ELSE vol

\* C4: dewarp_imageset returns the template under 'dewarpedmean' and under
\* 'dewarped' one entry per input image, in input order, entry k being input
\* image k (the whole time series when 4D) resampled into the template's
\* space with the transform from registering image k's reference volume to
\* the template.
C4_DewarpedInputs ==
    dw.pc = "done" =>
        LET inputs == dw.caller_list
            refs == [ k \in 1..Len(inputs) |->
                        ReferenceVolume(inputs[k], dw.padding) ]
            template == BuildTemplate(refs, dw.iterations)
        IN  /\ dw.ret.dewarpedmean = template
            /\ Len(dw.ret.dewarped) = Len(inputs)
            /\ \A k \in 1..Len(inputs) :
                  dw.ret.dewarped[k] =
                      ApplyTransforms(template, inputs[k],
                                      Registration(template, refs[k]),
                                      IF inputs[k].dim > 3 THEN 3 ELSE 0)

\* C5: super_res_mcimage processes every index of the last axis exactly
\* once, in increasing order, and returns one image with as many frames as
\* the input, frame k derived from input frame k, the other axes sized as
\* the model output of frame 0; for every frame count, zero and one included.
C5_AllFrameCounts ==
    sr.pc = "done" =>
        LET n == sr.nTimePoints
            slices == SelectSeq(sr.log, LAMBDA e : e.op = "slice_image")
            spatial == SubSeq(sr.ishape, 1, Len(sr.ishape) - 1)
        IN  /\ sr.kind = "image"
            /\ slices = [ k \in 1..n |-> Logged("slice_image", k - 1) ]
            /\ Len(sr.result.frames) = n
            /\ \A k \in 1..n : sr.result.frames[k].frame = k - 1
            /\ sr.result.shape =
                  [ j \in 1..Len(spatial) |-> UpFactor * spatial[j] ] \o << n >>

\* C6: the masking step of dipy_dti_recon gets the caller's median_radius,
\* numpass and dilate.
C6_MaskUsesArguments ==
    dti.pc = "done" =>
        /\ dti.otsu.median_radius = dti.median_radius
        /\ dti.otsu.numpass = dti.numpass
        /\ dti.otsu.dilate = dti.dilate

\* The library calls one frame must make, in order
FrameCalls(k, poly_order) ==
    << Logged("slice_image", k), Logged("TruncateIntensity", k),
       Logged("apply_super_resolution_model_to_image", k) >>
    \o (IF poly_order /= NoneArg
        THEN << Logged("resample_image_to_target", k),
                Logged("regression_match_image", k) >>
        ELSE <<>>)

RECURSIVE CallsUpTo(_, _)
CallsUpTo(n, poly_order) ==
    IF n = 0 THEN <<>>
    ELSE CallsUpTo(n - 1, poly_order) \o FrameCalls(n - 1, poly_order)

IsPrefix(a, b) == Len(a) <= Len(b) /\ SubSeq(b, 1, Len(a)) = a

\* What a frame must be stored as
ModelOutputOps ==
    << "slice_image", "TruncateIntensity", "apply_super_resolution_model_to_image" >>
StoredFrameOk(img, k, poly_order) ==
    /\ img.frame = k
    /\ IF poly_order = NoneArg
       THEN img.ops = ModelOutputOps /\ img.ref = <<>>
       ELSE /\ img.ops = Append(ModelOutputOps, "regression_match_image")
            /\ img.ref = << "slice_image", "TruncateIntensity",
                            "resample_image_to_target" >>

\* C7: for each frame the steps are in the order slice, truncate, apply the
\* model to the truncated frame, then (only if poly_order is not None)
\* regression-match the model output against the truncated frame resampled
\* to the output grid; with poly_order None the regression match is never
\* performed and the model output is stored unchanged.
C7_StepOrder ==
    /\ IsPrefix(sr.log, CallsUpTo(sr.nTimePoints, sr.poly_order))
    /\ \A k \in 1..Len(sr.mcsr) : StoredFrameOk(sr.mcsr[k], k - 1, sr.poly_order)
    /\ IsPrefix(CallsUpTo(Len(sr.mcsr), sr.poly_order), sr.log)
    /\ sr.pc = "done" => sr.log = CallsUpTo(sr.nTimePoints, sr.poly_order)

\* A finished call on several frames with a regression match
C7_Witness ==
    /\ sr.pc = "done"
    /\ sr.kind = "image"
    /\ sr.nTimePoints >= 2
    /\ sr.poly_order /= NoneArg
    /\ Len(sr.mcsr) = sr.nTimePoints

\* C8: dewarp_imageset leaves the caller's image_list unchanged, for every
\* padding and for 2D, 3D and 4D inputs, and the images resampled into the
\* template space are the caller's original images.
C8_CallerListUnchanged ==
    dw.pc = "done" =>
        /\ dw.lists[dw.image_list] = dw.caller_list
        /\ \A k \in 1..Len(dw.caller_list) :
              dw.ret.dewarped[k].moving = dw.caller_list[k]

====
